---- MODULE Spec2Model ----
(***************************************************************************)
(* The email-sending HTTP API of smtp-server, in its three server          *)
(* variants:                                                               *)
(*   "direct"   src/server.js: every endpoint calls the transport itself;  *)
(*   "promise"  src/unnamed/part_002 and the head of part_003: /send-email *)
(*              goes through a queue of jobs that carry the resolve/reject *)
(*              of the caller's promise;                                   *)
(*   "retry"    the server.js written by src/unnamed/part_001 (and the     *)
(*              guide in part_003): /send-email pushes a job with a retry  *)
(*              count and answers at once.                                 *)
(* Node runs each handler and each continuation of an async function to    *)
(* its next await without interleaving, so one action is one such run.     *)
(* Time is in milliseconds; the clock moves in steps of TickMs.            *)
(***************************************************************************)
EXTENDS Integers, Sequences, FiniteSets, TLC

\* ---------------------------------------------------------------- bounds
MaxReq == 2          \* requests received in one behaviour
MaxTicks == 5        \* clock steps in one behaviour
MaxRecipients == 2   \* recipients of one bulk request
MaxBurst == 3        \* requests received in one behaviour where every send succeeds

\* ------------------------------------------------------ program constants
MsPerMinute == 60000     \* 60000 / RATE_LIMIT
MaxRetries == 3          \* emailData.retries < 3
RateLimitCode == 421     \* error.responseCode === 421

\* The configurations the environment variables are drawn from:
\* SMTP_RATE_LIMIT (part_003: ms between emails; part_001: emails per minute)
\* and RETRY_DELAY (ms).
PromiseConfigs ==
  { [SMTP_RATE_LIMIT |-> 1000, RETRY_DELAY |-> 3000],
    [SMTP_RATE_LIMIT |-> 2000, RETRY_DELAY |-> 1000] }
RetryConfigs ==
  { [SMTP_RATE_LIMIT |-> 60, RETRY_DELAY |-> 2000],
    [SMTP_RATE_LIMIT |-> 20, RETRY_DELAY |-> 1000] }
NoConfig == [SMTP_RATE_LIMIT |-> 0, RETRY_DELAY |-> 0]

\* The clock's step: the smallest configured delay.
TickMs ==
  LET delays == { c.RETRY_DELAY : c \in PromiseConfigs \cup RetryConfigs }
  IN CHOOSE d \in delays : \A e \in delays : d <= e

\* Date.now() when the server starts: far from the epoch, so that the first
\* send never waits on lastEmailTime = 0.
StartTime == MsPerMinute

\* The count of a job's sendMail calls stops here: one more than the
\* retry-counting queue allows (a first send and MaxRetries retries), so that
\* a call too many still shows.
AttemptsCap == MaxRetries + 2

Variants == {"direct", "promise", "retry"}

VARIABLES
  variant,        \* which server.js runs
  CONFIG,         \* its configuration, read from the environment at start
  now,            \* Date.now()
  emailQueue,     \* const emailQueue = []
  isProcessing,   \* isProcessingQueue / isProcessing
  lastEmailTime,  \* let lastEmailTime = 0
  loop,           \* the processEmailQueue activations, by the request that started them
  handle,         \* promise queue: the promise queueEmail returned for a request
  settled,        \* promise queue: calls of a job's resolve or reject
  sends,          \* the sendMail calls a handler made itself, per request
  resp,           \* the HTTP response of each request
  attempts,       \* sendMail calls made by the drain loop, per job
  delivered,      \* sends the transport confirmed, per request
  invoke,         \* times of the drain loop's last two sendMail calls
  firstDone,      \* promise queue: time the drain loop's first send was confirmed
  request,        \* the request the step just taken received, if it received one
  nreq,           \* POST requests received so far
  reply,          \* the response the step just taken gave to a GET request
  verified        \* what transporter.verify called its callback with, if it has

vars == <<variant, CONFIG, now, emailQueue, isProcessing, lastEmailTime, loop,
          handle, settled, sends, resp, attempts, delivered, invoke, firstDone,
          request, nreq, reply, verified>>

\* The requests of one behaviour, in the order they arrive; the job of a
\* request has the request's number as its id.
Ids == 1..(IF MaxBurst > MaxReq THEN MaxBurst ELSE MaxReq)

NoJob == [id |-> 0]
NoLoop == [pc |-> "none", job |-> NoJob, wakeAt |-> 0]
NoHandle == [state |-> "none", code |-> 0]
NoSends == [route |-> "none", status |-> <<>>]
\* An HTTP response: its status code and the success, results and errors of its body.
Resp(status, success) == [status |-> status, success |-> success, results |-> <<>>, errors |-> <<>>]
NoResp == Resp(0, FALSE)
\* The response of a GET request: its status code and the fields of the body
\* of /queue-status.
Reply(status, queueLength, processing, lastTime, rateLimitMs) ==
  [status |-> status, queueLength |-> queueLength, isProcessing |-> processing,
   lastEmailTime |-> lastTime, rateLimitMs |-> rateLimitMs]
NoReply == Reply(0, 0, FALSE, 0, 0)
Never == 0 - 1


\* ------------------------------------------------------------ requests
\* A field of request.body: absent, the empty string, or a usable value.
Undefined == "<undefined>"
Falsy(v) == v \in {Undefined, ""}

Bodies ==
  { [to |-> "a@x", subject |-> "s", text |-> "t", html |-> Undefined],
    [to |-> "a@x", subject |-> "s", text |-> Undefined, html |-> "<p>"],
    [to |-> Undefined, subject |-> "s", text |-> "t", html |-> Undefined],
    [to |-> "a@x", subject |-> "", text |-> "t", html |-> "<p>"],
    [to |-> "a@x", subject |-> "s", text |-> Undefined, html |-> Undefined] }

\* request.body.recipients: absent, not an array, or an array of a length.
RecipientLists ==
  { [defined |-> FALSE, isArray |-> FALSE, length |-> 0],
    [defined |-> TRUE, isArray |-> FALSE, length |-> 0] }
  \cup { [defined |-> TRUE, isArray |-> TRUE, length |-> n] : n \in 0..MaxRecipients }

NoRecipients == [defined |-> FALSE, isArray |-> FALSE, length |-> 0]
NoBody == [to |-> Undefined, subject |-> Undefined, text |-> Undefined, html |-> Undefined]

\* The client's address as the pieces of its text, so that a leading
\* "::ffff:" (an IPv4-mapped address) is a piece of its own; <<>> is no
\* address at all (undefined or the empty string).
MappedPrefix == "::ffff:"
LocalIP == <<"127.0.0.1">>
ClientIPs ==
  { LocalIP,
    <<MappedPrefix, "127.0.0.1">>,
    <<"10.0.0.9">>,
    <<MappedPrefix, MappedPrefix, "127.0.0.1">>,
    <<>> }

\* const allowedIPs = ['127.0.0.1', '::1', server IP, client IP]
allowedIPs == { <<"127.0.0.1">>, <<"::1">>, <<"192.0.2.1">>, <<"192.0.2.2">> }

\* ip.replace(/^::ffff:/, '')
cleanIP(ip) == IF Len(ip) > 0 /\ Head(ip) = MappedPrefix THEN Tail(ip) ELSE ip

\* function isIPAllowed(ip)
NotMappedPrefix(piece) == piece # MappedPrefix

isIPAllowedEveryPrefixStripped(ip) ==
  ip # <<>> /\ SelectSeq(ip, NotMappedPrefix) \in allowedIPs

isIPAllowed(ip) == ip # <<>> /\ cleanIP(ip) \in allowedIPs

NoRequest == [route |-> "none", body |-> NoBody, recipients |-> NoRecipients, ip |-> <<>>]

\* if (!to || !subject || (!text && !html))
MissingFieldsNoContentCheck(body) ==
  Falsy(body.to) \/ Falsy(body.subject)

MissingFields(body) ==
  Falsy(body.to) \/ Falsy(body.subject) \/ (Falsy(body.text) /\ Falsy(body.html))

\* if (!recipients || !Array.isArray(recipients) || recipients.length === 0)
BadRecipients(r) ==
  ~r.defined \/ ~r.isArray \/ r.length = 0

\* if (!subject || (!text && !html))
MissingBulkFields(body) ==
  Falsy(body.subject) \/ (Falsy(body.text) /\ Falsy(body.html))

\* ----------------------------------------------------------- transport
\* What sendMail rejects with: an SMTP response code (0: none, a connection
\* error) and the words of its message.
Errors ==
  { [responseCode |-> 421, message |-> {"421", "try", "later"}],
    [responseCode |-> 450, message |-> {"rate", "limit", "exceeded"}],
    [responseCode |-> 550, message |-> {"mailbox", "unavailable"}],
    [responseCode |-> 0, message |-> {"connection", "refused"}] }

\* error.responseCode === 421 || error.message.includes("421") ||
\* error.message.includes("rate")
IsRateLimitError(error) ==
  \/ error.responseCode = RateLimitCode
  \/ "421" \in error.message
  \/ "rate" \in error.message

PermanentErrors == { e \in Errors : ~IsRateLimitError(e) }
TransientErrors == { e \in Errors : IsRateLimitError(e) }

\* ------------------------------------------------------- program state
\* The mutable state of the process as one record, so that the steps of a
\* handler compose as the statements of the code do.
Cur ==
  [ emailQueue |-> emailQueue, isProcessing |-> isProcessing,
    lastEmailTime |-> lastEmailTime, loop |-> loop, handle |-> handle,
    settled |-> settled, sends |-> sends, resp |-> resp,
    attempts |-> attempts, delivered |-> delivered, invoke |-> invoke,
    firstDone |-> firstDone ]

Becomes(s) ==
  /\ emailQueue' = s.emailQueue
  /\ isProcessing' = s.isProcessing
  /\ lastEmailTime' = s.lastEmailTime
  /\ loop' = s.loop
  /\ handle' = s.handle
  /\ settled' = s.settled
  /\ sends' = s.sends
  /\ resp' = s.resp
  /\ attempts' = s.attempts
  /\ delivered' = s.delivered
  /\ invoke' = s.invoke
  /\ firstDone' = s.firstDone

Init ==
  /\ variant \in Variants
  /\ CONFIG \in CASE variant = "promise" -> PromiseConfigs
                   [] variant = "retry" -> RetryConfigs
                   [] OTHER -> {NoConfig}
  /\ now = StartTime
  /\ emailQueue = <<>>
  /\ isProcessing = FALSE
  /\ lastEmailTime = 0
  /\ loop = [i \in Ids |-> NoLoop]
  /\ handle = [i \in Ids |-> NoHandle]
  /\ settled = [i \in Ids |-> 0]
  /\ sends = [i \in Ids |-> NoSends]
  /\ resp = [i \in Ids |-> NoResp]
  /\ attempts = [i \in Ids |-> 0]
  /\ delivered = [i \in Ids |-> 0]
  /\ invoke = [prev |-> Never, last |-> Never]
  /\ firstDone = Never
  /\ request = NoRequest
  /\ nreq = 0
  /\ reply = NoReply
  /\ verified = "pending"

\* ------------------------------------------- promise queue (part_003)
\* In the operators below s is the program state, l the activation of
\* processEmailQueue that runs, t the value of Date.now().

\* const info = await transporter.sendMail(emailJob.mailOptions): the call.
InvokeTransport(s, l, job, t) ==
  [s EXCEPT !.loop[l] = [pc |-> "sending", job |-> job, wakeAt |-> 0],
            !.attempts[job.id] = IF @ < AttemptsCap THEN @ + 1 ELSE @,
            !.invoke = [prev |-> @.last, last |-> t]]

\* const now = Date.now(); const timeSinceLastEmail = now - lastEmailTime;
\* if (timeSinceLastEmail < SMTP_RATE_LIMIT) await setTimeout(waitTime)
RateLimitWaitSkipped(s, l, job, t) == InvokeTransport(s, l, job, t)

RateLimitWait(s, l, job, t) ==
  LET timeSinceLastEmail == t - s.lastEmailTime
      waitTime == CONFIG.SMTP_RATE_LIMIT - timeSinceLastEmail
  IN IF timeSinceLastEmail < CONFIG.SMTP_RATE_LIMIT
       THEN [s EXCEPT !.loop[l] = [pc |-> "rateWait", job |-> job, wakeAt |-> t + waitTime]]
       ELSE InvokeTransport(s, l, job, t)

\* while (emailQueue.length > 0) { const emailJob = emailQueue.shift(); ... }
\* isProcessingQueue = false;
WhileQueueKeepsFlag(s, l, t) ==
  IF Len(s.emailQueue) > 0
    THEN RateLimitWait([s EXCEPT !.emailQueue = Tail(@)], l, Head(s.emailQueue), t)
    ELSE [s EXCEPT !.loop[l] = NoLoop]

WhileQueueStopsAtLast(s, l, t) ==
  IF Len(s.emailQueue) > 1
    THEN RateLimitWait([s EXCEPT !.emailQueue = Tail(@)], l, Head(s.emailQueue), t)
    ELSE [s EXCEPT !.isProcessing = FALSE, !.loop[l] = NoLoop]

WhileQueue(s, l, t) ==
  IF Len(s.emailQueue) > 0
    THEN RateLimitWait([s EXCEPT !.emailQueue = Tail(@)], l, Head(s.emailQueue), t)
    ELSE [s EXCEPT !.isProcessing = FALSE, !.loop[l] = NoLoop]

\* if (isProcessingQueue || emailQueue.length === 0) return;
EntryGuard(s) == ~s.isProcessing /\ Len(s.emailQueue) > 0

\* async function processEmailQueue(), to its first await
processEmailQueue(s, l, t) ==
  IF EntryGuard(s)
    THEN WhileQueue([s EXCEPT !.isProcessing = TRUE], l, t)
    ELSE s

\* function queueEmail(mailOptions): the executor of the promise it returns
queueEmailWhenIdle(s, id, t) ==
  IF s.isProcessing
    THEN s
    ELSE processEmailQueue([s EXCEPT !.emailQueue = Append(@, [id |-> id]),
                                     !.handle[id] = [state |-> "pending", code |-> 0]],
                           id, t)

queueEmail(s, id, t) ==
  LET emailJob == [id |-> id]
      s1 == [s EXCEPT !.emailQueue = Append(@, emailJob),
                      !.handle[id] = [state |-> "pending", code |-> 0]]
  IN IF ~s1.isProcessing THEN processEmailQueue(s1, id, t) ELSE s1

\* emailJob.resolve({success: true, messageId: info.messageId, ...}) and the
\* continuation of the handler awaiting it: return result
ResolveJob(s, job) ==
  [s EXCEPT !.handle[job.id] = IF s.handle[job.id].state = "pending"
                                 THEN [state |-> "resolved", code |-> 0]
                                 ELSE @,
            !.settled[job.id] = @ + 1,
            !.resp[job.id] = IF s.handle[job.id].state = "pending"
                               THEN Resp(200, TRUE) ELSE @]

\* emailJob.reject({error, details: error.message, code: error.responseCode})
\* and the handler's catch: reply.status(500)
RejectJob(s, job, error) ==
  [s EXCEPT !.handle[job.id] = IF s.handle[job.id].state = "pending"
                                 THEN [state |-> "rejected", code |-> error.responseCode]
                                 ELSE @,
            !.settled[job.id] = @ + 1,
            !.resp[job.id] = IF s.handle[job.id].state = "pending"
                               THEN Resp(500, FALSE) ELSE @]

\* The try block after sendMail fulfilled: lastEmailTime = Date.now();
\* emailJob.resolve(...), and on to the next iteration.
SendSucceeded(s, l, t) ==
  LET job == s.loop[l].job
      s1 == [s EXCEPT !.lastEmailTime = t, !.delivered[job.id] = @ + 1,
                      !.firstDone = IF @ = Never THEN t ELSE @]
  IN WhileQueue(ResolveJob(s1, job), l, t)

\* The rate-limit branch of the catch block: emailQueue.unshift(emailJob);
\* await setTimeout(RETRY_DELAY); continue
RequeueAtBack(s, l, t) ==
  [s EXCEPT !.emailQueue = Append(@, s.loop[l].job),
            !.loop[l] = [pc |-> "retryWait", job |-> s.loop[l].job,
                         wakeAt |-> t + CONFIG.RETRY_DELAY]]

RequeueAtFront(s, l, t) ==
  [s EXCEPT !.emailQueue = <<s.loop[l].job>> \o @,
            !.loop[l] = [pc |-> "retryWait", job |-> s.loop[l].job,
                         wakeAt |-> t + CONFIG.RETRY_DELAY]]

\* The catch block after sendMail rejected with error.
SendFailedRequeuesAll(s, l, error, t) == RequeueAtFront(s, l, t)

SendFailedRejectsAll(s, l, error, t) ==
  WhileQueue(RejectJob(s, s.loop[l].job, error), l, t)

SendFailedEndsLoop(s, l, error, t) ==
  IF IsRateLimitError(error)
    THEN RequeueAtFront(s, l, t)
    ELSE [RejectJob(s, s.loop[l].job, error) EXCEPT !.isProcessing = FALSE,
                                                    !.loop[l] = NoLoop]

SendFailedGivesUp(s, l, error, t) ==
  IF IsRateLimitError(error) /\ s.attempts[s.loop[l].job.id] <= MaxRetries
    THEN RequeueAtFront(s, l, t)
    ELSE WhileQueue(RejectJob(s, s.loop[l].job, error), l, t)

SendFailedNoContinue(s, l, error, t) ==
  LET job == s.loop[l].job
  IN WhileQueue(RejectJob(IF IsRateLimitError(error)
                            THEN [s EXCEPT !.emailQueue = <<job>> \o @] ELSE s,
                          job, error), l, t)

SendFailed(s, l, error, t) ==
  IF IsRateLimitError(error)
    THEN RequeueAtFront(s, l, t)
    ELSE WhileQueue(RejectJob(s, s.loop[l].job, error), l, t)

\* ------------------------------------ retry-counting queue (part_001)
\* const minInterval = 60000 / RATE_LIMIT (the configurations divide 60000)
minInterval == MsPerMinute \div CONFIG.SMTP_RATE_LIMIT

\* if (timeSinceLastEmail < minInterval) await setTimeout(minInterval -
\* timeSinceLastEmail); then transporter.sendMail({...})
RateLimitWaitRetry(s, l, emailData, t) ==
  LET timeSinceLastEmail == t - s.lastEmailTime
  IN IF timeSinceLastEmail < minInterval
       THEN [s EXCEPT !.loop[l] = [pc |-> "rateWait", job |-> emailData,
                                   wakeAt |-> t + (minInterval - timeSinceLastEmail)]]
       ELSE InvokeTransport(s, l, emailData, t)

\* while (emailQueue.length > 0) { const emailData = emailQueue.shift(); ... }
\* isProcessing = false;
WhileQueueRetryFromBack(s, l, t) ==
  IF Len(s.emailQueue) > 0
    THEN RateLimitWaitRetry([s EXCEPT !.emailQueue = SubSeq(@, 1, Len(@) - 1)], l,
                            s.emailQueue[Len(s.emailQueue)], t)
    ELSE [s EXCEPT !.isProcessing = FALSE, !.loop[l] = NoLoop]

WhileQueueRetry(s, l, t) ==
  IF Len(s.emailQueue) > 0
    THEN RateLimitWaitRetry([s EXCEPT !.emailQueue = Tail(@)], l, Head(s.emailQueue), t)
    ELSE [s EXCEPT !.isProcessing = FALSE, !.loop[l] = NoLoop]

\* if (isProcessing || emailQueue.length === 0) return;
EntryGuardRetryNoFlag(s) == Len(s.emailQueue) > 0

EntryGuardRetry(s) == ~s.isProcessing /\ Len(s.emailQueue) > 0

\* async function processEmailQueue(), to its first await
processEmailQueueRetryUnguarded(s, l, t) ==
  IF Len(s.emailQueue) > 0
    THEN WhileQueueRetry([s EXCEPT !.isProcessing = TRUE], l, t)
    ELSE s

processEmailQueueRetry(s, l, t) ==
  IF EntryGuardRetry(s)
    THEN WhileQueueRetry([s EXCEPT !.isProcessing = TRUE], l, t)
    ELSE s

\* await new Promise(resolve => setTimeout(resolve, RETRY_DELAY)), which
\* ends every iteration
DelayAfterJob(s, l, t) ==
  [s EXCEPT !.loop[l] = [pc |-> "retryWait", job |-> s.loop[l].job,
                         wakeAt |-> t + CONFIG.RETRY_DELAY]]

\* lastEmailTime = Date.now() after sendMail fulfilled
SendSucceededRetryRequeues(s, l, t) ==
  DelayAfterJob([s EXCEPT !.lastEmailTime = t,
                          !.delivered[s.loop[l].job.id] = @ + 1,
                          !.emailQueue = Append(@, s.loop[l].job)], l, t)

SendSucceededRetryNoDelay(s, l, t) ==
  WhileQueueRetry([s EXCEPT !.lastEmailTime = t,
                            !.delivered[s.loop[l].job.id] = @ + 1], l, t)

SendSucceededRetry(s, l, t) ==
  DelayAfterJob([s EXCEPT !.lastEmailTime = t,
                          !.delivered[s.loop[l].job.id] = @ + 1], l, t)

\* catch (error) { if (emailData.retries < 3) { emailData.retries++;
\* emailQueue.push(emailData); } }
RetryOrDropUnbounded(s, emailData) ==
  [s EXCEPT !.emailQueue = Append(@, [emailData EXCEPT !.retries = @ + 1])]

RetryOrDropKeepsCount(s, emailData) ==
  IF emailData.retries < MaxRetries
    THEN [s EXCEPT !.emailQueue = Append(@, emailData)]
    ELSE s

RetryOrDrop(s, emailData) ==
  IF emailData.retries < MaxRetries
    THEN [s EXCEPT !.emailQueue = Append(@, [emailData EXCEPT !.retries = @ + 1])]
    ELSE s

SendFailedRetry(s, l, t) ==
  DelayAfterJob(RetryOrDrop(s, s.loop[l].job), l, t)

\* ------------------------------------------------ direct sends
\* A handler's own await transporter.sendMail(mailOptions): n calls at once
\* (one, or one per recipient of recipients.map(async ...)).
StartSends(s, id, route, n) ==
  [s EXCEPT !.sends[id] = [route |-> route, status |-> [k \in 1..n |-> "pending"]]]

Indices(status, what) ==
  LET F[k \in 0..Len(status)] ==
        IF k = 0 THEN <<>>
        ELSE IF status[k] = what THEN Append(F[k - 1], k) ELSE F[k - 1]
  IN F[Len(status)]

\* emailResults.forEach(...): results and errors (each entry by its index),
\* and the body returned: { success: true, totalSent: results.length,
\* totalErrors: errors.length, results, errors }
BulkResponseFirstErrorOnly(status) ==
  LET results == Indices(status, "ok")
      errors == IF Indices(status, "fail") = <<>> THEN <<>>
                ELSE <<Head(Indices(status, "fail"))>>
  IN [status |-> 200, success |-> TRUE, totalSent |-> Len(results),
      totalErrors |-> Len(errors), results |-> results, errors |-> errors]

BulkResponseFailsWhenNoneSent(status) ==
  LET results == Indices(status, "ok")
      errors == Indices(status, "fail")
  IN IF results = <<>>
       THEN Resp(500, FALSE)
       ELSE [status |-> 200, success |-> TRUE, totalSent |-> Len(results),
             totalErrors |-> Len(errors), results |-> results, errors |-> errors]

BulkResponse(status) ==
  LET results == Indices(status, "ok")
      errors == Indices(status, "fail")
  IN [status |-> 200, success |-> TRUE, totalSent |-> Len(results),
      totalErrors |-> Len(errors), results |-> results, errors |-> errors]

\* What the handler answers once every sendMail call it made has settled.
DirectResponse(route, status) ==
  IF route = "/send-bulk-email" THEN BulkResponse(status)
  ELSE IF status[1] = "ok" THEN Resp(200, TRUE) ELSE Resp(500, FALSE)

\* One of the handler's sendMail calls settles.
SendSettlesStampsClock(s, id, k, outcome) ==
  LET status == [s.sends[id].status EXCEPT ![k] = outcome]
      s1 == [s EXCEPT !.sends[id].status = status,
                      !.delivered[id] = IF outcome = "ok" THEN @ + 1 ELSE @,
                      !.lastEmailTime = IF outcome = "ok" THEN now ELSE @]
  IN IF \A j \in 1..Len(status) : status[j] # "pending"
       THEN [s1 EXCEPT !.resp[id] = DirectResponse(s.sends[id].route, status)]
       ELSE s1

SendSettles(s, id, k, outcome) ==
  LET status == [s.sends[id].status EXCEPT ![k] = outcome]
      s1 == [s EXCEPT !.sends[id].status = status,
                      !.delivered[id] = IF outcome = "ok" THEN @ + 1 ELSE @]
  IN IF \A j \in 1..Len(status) : status[j] # "pending"
       THEN [s1 EXCEPT !.resp[id] = DirectResponse(s.sends[id].route, status)]
       ELSE s1

\* -------------------------------------------------------------- actions
Static == UNCHANGED <<variant, CONFIG, now, verified>>

\* A POST request arrives from the client at ip, one of at most limit.
ReceiveUpTo(limit, ip, route, body, recipients) ==
  /\ nreq < limit
  /\ nreq' = nreq + 1
  /\ request' = [route |-> route, body |-> body, recipients |-> recipients, ip |-> ip]
  /\ reply' = NoReply

ReceiveFrom(ip, route, body, recipients) ==
  ReceiveUpTo(MaxReq, ip, route, body, recipients)

Receive(route, body, recipients) == ReceiveFrom(LocalIP, route, body, recipients)

\* A step that receives no request.
Quiet == request' = NoRequest /\ reply' = NoReply /\ nreq' = nreq

\* fastify.post("/send-email") of part_003, for at most limit requests
SendEmailPromiseUpTo(limit) ==
  /\ variant = "promise"
  /\ \E body \in Bodies :
       /\ ReceiveUpTo(limit, LocalIP, "/send-email", body, NoRecipients)
       /\ IF MissingFields(body)
            THEN Becomes([Cur EXCEPT !.resp[nreq + 1] = Resp(400, FALSE)])
            ELSE Becomes(queueEmail(Cur, nreq + 1, now))
  /\ Static

PostSendEmailPromise == SendEmailPromiseUpTo(MaxReq)

\* fastify.post("/send-email") of the server part_001 writes, behind its
\* preHandler hook: if (!isIPAllowed(clientIP)) { reply.status(403).send(...);
\* return; } answers the request, and a request that is answered never
\* reaches the route's handler. The clients are those at the addresses ips,
\* the requests at most limit.
SendEmailRetry(limit, ips) ==
  /\ variant = "retry"
  /\ \E ip \in ips, body \in Bodies :
       /\ ReceiveUpTo(limit, ip, "/send-email", body, NoRecipients)
       /\ IF ~isIPAllowed(ip)
            THEN Becomes([Cur EXCEPT !.resp[nreq + 1] = Resp(403, FALSE)])
            ELSE IF MissingFields(body)
            THEN Becomes([Cur EXCEPT !.resp[nreq + 1] = Resp(400, FALSE)])
            ELSE LET emailData == [id |-> nreq + 1, retries |-> 0]
                     s1 == [Cur EXCEPT !.emailQueue = Append(@, emailData)]
                     s2 == processEmailQueueRetry(s1, nreq + 1, now)
                 IN Becomes([s2 EXCEPT !.resp[nreq + 1] = Resp(200, TRUE)])
  /\ Static

SendEmailRetryFrom(ips) == SendEmailRetry(MaxReq, ips)

\* The same from a client on the allow-list.
PostSendEmailRetry == SendEmailRetryFrom({LocalIP})

\* fastify.post("/send-email") of src/server.js
PostSendEmailDirect ==
  /\ variant = "direct"
  /\ \E body \in Bodies :
       /\ Receive("/send-email", body, NoRecipients)
       /\ IF MissingFields(body)
            THEN Becomes([Cur EXCEPT !.resp[nreq + 1] = Resp(400, FALSE)])
            ELSE Becomes(StartSends(Cur, nreq + 1, "/send-email", 1))
  /\ Static

\* fastify.post("/send-email-with-attachments")
PostSendEmailWithAttachments ==
  /\ variant \in {"direct", "promise"}
  /\ \E body \in Bodies :
       /\ Receive("/send-email-with-attachments", body, NoRecipients)
       /\ IF MissingFields(body)
            THEN Becomes([Cur EXCEPT !.resp[nreq + 1] = Resp(400, FALSE)])
            ELSE Becomes(StartSends(Cur, nreq + 1, "/send-email-with-attachments", 1))
  /\ Static

\* fastify.post("/send-bulk-email"), for requests whose recipients are one
\* of lists
SendBulkEmail(lists) ==
  /\ variant \in {"direct", "promise"}
  /\ \E body \in Bodies, recipients \in lists :
       /\ Receive("/send-bulk-email", body, recipients)
       /\ IF BadRecipients(recipients) \/ MissingBulkFields(body)
            THEN Becomes([Cur EXCEPT !.resp[nreq + 1] = Resp(400, FALSE)])
            ELSE Becomes(StartSends(Cur, nreq + 1, "/send-bulk-email", recipients.length))
  /\ Static

PostSendBulkEmail == SendBulkEmail(RecipientLists)

\* A GET request arrives from the client at ip; GET requests are not counted.
ReceiveGet(ip, route) ==
  /\ request' = [route |-> route, body |-> NoBody, recipients |-> NoRecipients, ip |-> ip]
  /\ nreq' = nreq

\* The preHandler hook of the server part_001 writes: only that server has one.
Refused(ip) == variant = "retry" /\ ~isIPAllowed(ip)

\* reply.status(403).send({error: 'Access Denied', ...})
Forbidden == Reply(403, 0, FALSE, 0, 0)

\* return { status: "OK", message: "SMTP server is running" }
HealthReply == Reply(200, 0, FALSE, 0, 0)

\* return { queueLength: emailQueue.length, isProcessing, lastEmailTime,
\* rateLimitMs: CONFIG.RATE_LIMITING.SMTP_RATE_LIMIT } (part_001: RATE_LIMIT)
QueueStatusCountsInFlight(s) ==
  Reply(200,
        Len(s.emailQueue)
          + Cardinality({ l \in Ids : s.loop[l].pc \in {"rateWait", "sending"} }),
        s.isProcessing, s.lastEmailTime, CONFIG.SMTP_RATE_LIMIT)

QueueStatus(s) ==
  Reply(200, Len(s.emailQueue), s.isProcessing, s.lastEmailTime, CONFIG.SMTP_RATE_LIMIT)

\* fastify.get("/health") from a client at one of the addresses ips
GetHealthFrom(ips) ==
  /\ \E ip \in ips :
       /\ ReceiveGet(ip, "/health")
       /\ reply' = IF Refused(ip) THEN Forbidden ELSE HealthReply
  /\ Becomes(Cur)
  /\ Static

\* fastify.get("/queue-status") from a client at one of the addresses ips
GetQueueStatusResetsClock(ips) ==
  /\ variant \in {"promise", "retry"}
  /\ \E ip \in ips :
       /\ ReceiveGet(ip, "/queue-status")
       /\ reply' = IF Refused(ip) THEN Forbidden ELSE QueueStatus(Cur)
  /\ Becomes([Cur EXCEPT !.lastEmailTime = now])
  /\ Static

GetQueueStatusFrom(ips) ==
  /\ variant \in {"promise", "retry"}
  /\ \E ip \in ips :
       /\ ReceiveGet(ip, "/queue-status")
       /\ reply' = IF Refused(ip) THEN Forbidden ELSE QueueStatus(Cur)
  /\ Becomes(Cur)
  /\ Static

\* The same from a client on the allow-list.
GetHealth == GetHealthFrom({LocalIP})

GetQueueStatus == GetQueueStatusFrom({LocalIP})

\* A sendMail call made by a handler fulfils or rejects.
DirectSendReturns ==
  /\ \E id \in Ids :
       \E k \in 1..Len(sends[id].status) :
         /\ sends[id].status[k] = "pending"
         /\ \E outcome \in {"ok", "fail"} : Becomes(SendSettles(Cur, id, k, outcome))
  /\ Static
  /\ Quiet

\* The setTimeout of the rate-limit wait fires; sendMail is called.
RateLimitTimer ==
  /\ \E l \in Ids :
       /\ loop[l].pc = "rateWait"
       /\ now >= loop[l].wakeAt
       /\ Becomes(InvokeTransport(Cur, l, loop[l].job, now))
  /\ Static
  /\ Quiet

\* The drain loop's sendMail fulfils.
TransportFulfils ==
  /\ \E l \in Ids :
       /\ loop[l].pc = "sending"
       /\ IF variant = "promise"
            THEN Becomes(SendSucceeded(Cur, l, now))
            ELSE Becomes(SendSucceededRetry(Cur, l, now))
  /\ Static
  /\ Quiet

\* The drain loop's sendMail rejects.
TransportRejects ==
  /\ \E l \in Ids :
       /\ loop[l].pc = "sending"
       /\ IF variant = "promise"
            THEN \E error \in Errors : Becomes(SendFailed(Cur, l, error, now))
            ELSE Becomes(SendFailedRetry(Cur, l, now))
  /\ Static
  /\ Quiet

\* The setTimeout of RETRY_DELAY fires; the loop goes to its next iteration.
RetryTimer ==
  /\ \E l \in Ids :
       /\ loop[l].pc = "retryWait"
       /\ now >= loop[l].wakeAt
       /\ IF variant = "promise"
            THEN Becomes(WhileQueue(Cur, l, now))
            ELSE Becomes(WhileQueueRetry(Cur, l, now))
  /\ Static
  /\ Quiet

\* Time passes.
Tick ==
  /\ now < StartTime + MaxTicks * TickMs
  /\ now' = now + TickMs
  /\ Quiet
  /\ UNCHANGED <<variant, CONFIG, emailQueue, isProcessing, lastEmailTime, loop,
                 handle, settled, sends, resp, attempts, delivered, invoke,
                 firstDone, verified>>

\* The /send-email route of the three servers, the drain loop and the clock.
Next ==
  \/ PostSendEmailPromise
  \/ PostSendEmailRetry
  \/ PostSendEmailDirect
  \/ DirectSendReturns
  \/ RateLimitTimer
  \/ TransportFulfils
  \/ TransportRejects
  \/ RetryTimer
  \/ Tick

Spec == Init /\ [][Next]_vars

\* Every route of the three servers.
ServerNext ==
  \/ Next
  \/ PostSendEmailWithAttachments
  \/ PostSendBulkEmail

ServerSpec == Init /\ [][ServerNext]_vars

\* ------------------------------------------ the handlers that send directly
BulkNext ==
  \/ PostSendBulkEmail
  \/ PostSendEmailWithAttachments
  \/ DirectSendReturns

BulkInit == Init /\ variant \in {"direct", "promise"}

\* The routes of the direct and the promise server whose handlers call
\* sendMail themselves, beside any queue.
BulkSpec == BulkInit /\ [][BulkNext]_vars

\* The /send-email route, the drain loop, the clock and the two GET routes.
StatusNext ==
  \/ Next
  \/ GetHealth
  \/ GetQueueStatus

StatusSpec == Init /\ [][StatusNext]_vars

\* ------------------------------- the queue beside the handlers' own sends
\* A bulk request with at most one recipient.
PostSendBulkEmailToOne == SendBulkEmail({ r \in RecipientLists : r.length <= 1 })

ClockNext ==
  \/ PostSendEmailPromise
  \/ PostSendEmailRetry
  \/ PostSendEmailWithAttachments
  \/ PostSendBulkEmailToOne
  \/ DirectSendReturns
  \/ RateLimitTimer
  \/ TransportFulfils
  \/ TransportRejects
  \/ RetryTimer
  \/ Tick
  \/ GetQueueStatus

ClockInit == Init /\ variant \in {"promise", "retry"}

\* The two servers that keep lastEmailTime, with every route that calls
\* sendMail and the route that reports lastEmailTime.
ClockSpec == ClockInit /\ [][ClockNext]_vars

\* ------------------------------------- the allow-listed server, any client
PostSendEmailAnyClient == SendEmailRetryFrom(ClientIPs)

GetHealthAnyClient == GetHealthFrom(ClientIPs)

GetQueueStatusAnyClient == GetQueueStatusFrom(ClientIPs)

GuardedNext ==
  \/ PostSendEmailAnyClient
  \/ GetHealthAnyClient
  \/ GetQueueStatusAnyClient
  \/ RateLimitTimer
  \/ TransportFulfils
  \/ TransportRejects
  \/ RetryTimer
  \/ Tick

GuardedInit == Init /\ variant = "retry"

\* The server of part_001 with requests from clients on and off its allow-list.
GuardedSpec == GuardedInit /\ [][GuardedNext]_vars

\* ----------------------------------------- a transport that never fails
PostSendEmailBurst == SendEmailPromiseUpTo(MaxBurst)

PostSendEmailRetryBurst == SendEmailRetry(MaxBurst, {LocalIP})

SuccessNext ==
  \/ PostSendEmailBurst
  \/ PostSendEmailRetryBurst
  \/ RateLimitTimer
  \/ TransportFulfils
  \/ RetryTimer
  \/ Tick

SuccessInit == Init /\ variant \in {"promise", "retry"}

\* The two queue servers with a transport whose every send is confirmed.
SuccessSpec == SuccessInit /\ [][SuccessNext]_vars

\* ------------------------------------------- a transport that always fails
\* The drain loop's sendMail rejects with an error that is no rate-limit error.
TransportRejectsPermanently ==
  /\ \E l \in Ids :
       /\ loop[l].pc = "sending"
       /\ IF variant = "promise"
            THEN \E error \in PermanentErrors : Becomes(SendFailed(Cur, l, error, now))
            ELSE Becomes(SendFailedRetry(Cur, l, now))
  /\ Static
  /\ Quiet

PermanentFailureNext ==
  \/ PostSendEmailPromise
  \/ PostSendEmailRetry
  \/ TransportRejectsPermanently
  \/ RetryTimer
  \/ Tick

\* The two queue servers with a transport whose every send fails for good.
PermanentFailureInit == Init /\ variant \in {"promise", "retry"}

PermanentFailureSpec == PermanentFailureInit /\ [][PermanentFailureNext]_vars

\* ------------------------------------ the start-up check of the transport
\* transporter.verify((error, success) => { if (error) console.error(...)
\* else console.log(...) }): the callback writes a line to the log.
verifyCallbackFatal(s, error) ==
  IF error
    THEN [s EXCEPT !.emailQueue = <<>>, !.isProcessing = TRUE]
    ELSE s

verifyCallback(s, error) == s

\* transporter.verify calls its callback, with an error or without. The
\* script goes on to start() without waiting for it, so requests may come
\* before and after.
VerifyReturns ==
  /\ verified = "pending"
  /\ \E error \in BOOLEAN :
       /\ verified' = IF error THEN "failed" ELSE "ok"
       /\ Becomes(verifyCallback(Cur, error))
  /\ Quiet
  /\ UNCHANGED <<variant, CONFIG, now>>

StartupNext ==
  \/ VerifyReturns
  \/ PostSendEmailPromise
  \/ PostSendEmailRetry
  \/ PostSendEmailDirect
  \/ DirectSendReturns
  \/ TransportRejectsPermanently
  \/ RetryTimer
  \/ Tick

\* The three servers from the moment the script has run, with the answer of
\* transporter.verify still to come and a transport the drain loop cannot
\* reach.
StartupSpec == Init /\ [][StartupNext]_vars

\* ------------------------------------------------ the promise queue, fair
\* The longest delay a queue server is configured with: a timestamp this far
\* back is past every interval the code compares it with.
Horizon ==
  LET delays == { c.RETRY_DELAY : c \in PromiseConfigs \cup RetryConfigs }
                \cup { c.SMTP_RATE_LIMIT : c \in PromiseConfigs }
                \cup { MsPerMinute \div c.SMTP_RATE_LIMIT : c \in RetryConfigs }
  IN CHOOSE d \in delays : \A e \in delays : e <= d

\* A timestamp after TickMs more have passed, written relative to an
\* unchanged `now`: the code reads timestamps only as differences from
\* Date.now(), so moving them back is time moving on.
Aged(ts) == IF now - ts >= Horizon THEN ts ELSE ts - TickMs

\* Time passes, without end.
TickLive ==
  /\ lastEmailTime' = Aged(lastEmailTime)
  /\ loop' = [l \in Ids |-> [loop[l] EXCEPT !.wakeAt = Aged(@)]]
  /\ invoke' = [prev |-> Aged(invoke.prev), last |-> Aged(invoke.last)]
  /\ firstDone' = Aged(firstDone)
  /\ Quiet
  /\ UNCHANGED <<variant, CONFIG, now, emailQueue, isProcessing, handle, settled,
                 sends, resp, attempts, delivered, verified>>

LiveNext ==
  \/ PostSendEmailPromise
  \/ RateLimitTimer
  \/ TransportFulfils
  \/ TransportRejects
  \/ RetryTimer
  \/ TickLive

LiveInit == Init /\ variant = "promise"

\* The promise server where time goes on, every timer that is due fires and
\* every sendMail call of the drain loop returns.
LiveSpec ==
  /\ LiveInit
  /\ [][LiveNext]_vars
  /\ WF_vars(TickLive)
  /\ WF_vars(RateLimitTimer)
  /\ WF_vars(RetryTimer)
  /\ WF_vars(TransportFulfils \/ TransportRejects)

\* ------------------------------------- a transport that is always rate limited
\* The drain loop's sendMail rejects with a rate-limit error.
TransportRejectsTransiently ==
  /\ variant = "promise"
  /\ \E l \in Ids :
       /\ loop[l].pc = "sending"
       /\ \E error \in TransientErrors : Becomes(SendFailed(Cur, l, error, now))
  /\ Static
  /\ Quiet

RateLimitedNext ==
  \/ PostSendEmailPromise
  \/ TransportRejectsTransiently
  \/ RetryTimer
  \/ TickLive

RateLimitedInit == Init /\ variant = "promise"

\* The promise server with a transport that answers every send with a
\* rate-limit error, where time goes on, every timer that is due fires and
\* every sendMail call returns.
RateLimitedSpec ==
  /\ RateLimitedInit
  /\ [][RateLimitedNext]_vars
  /\ WF_vars(TickLive)
  /\ WF_vars(RetryTimer)
  /\ WF_vars(TransportRejectsTransiently)

\* ------------------------------------------- the retry-counting queue, fair
DrainNext ==
  \/ PostSendEmailRetry
  \/ RateLimitTimer
  \/ TransportFulfils
  \/ TransportRejects
  \/ RetryTimer
  \/ TickLive

DrainInit == Init /\ variant = "retry"

\* The retry-counting server where time goes on, every timer that is due
\* fires and every sendMail call of the drain loop returns.
DrainSpec ==
  /\ DrainInit
  /\ [][DrainNext]_vars
  /\ WF_vars(TickLive)
  /\ WF_vars(RateLimitTimer)
  /\ WF_vars(RetryTimer)
  /\ WF_vars(TransportFulfils \/ TransportRejects)

\* ------------------------------------------------------------ properties
QueueVariant == variant \in {"promise", "retry"}

\* The activations of processEmailQueue that have not returned.
ActiveLoops == { l \in Ids : loop[l].pc # "none" }

\* The number of places of the queue that hold job i.
InQueue(i) == Cardinality({ k \in 1..Len(emailQueue) : emailQueue[k].id = i })

\* The activations that have taken job i off the queue and not finished with it.
HeldBy(i) == { l \in Ids : loop[l].pc \in {"rateWait", "sending"} /\ loop[l].job.id = i }

\* The sendMail calls that have not settled: the drain loop's and the handlers'.
InFlightSends ==
  Cardinality({ l \in Ids : loop[l].pc = "sending" })
  + Cardinality({ p \in Ids \X (1..MaxRecipients) :
                    /\ p[2] <= Len(sends[p[1]].status)
                    /\ sends[p[1]].status[p[2]] = "pending" })

\* C1: in both queue variants at most one activation of processEmailQueue is
\* running at any time, whatever the interleaving of enqueues with its waits,
\* and it is running exactly while the busy flag is set.
C1_SingleDrainLoop ==
  QueueVariant =>
    /\ Cardinality(ActiveLoops) <= 1
    /\ isProcessing <=> ActiveLoops # {}

\* A second request was enqueued while the loop the first one started was
\* suspended in its delay.
C1_Witness ==
  /\ variant = "retry"
  /\ isProcessing
  /\ loop[1].pc = "retryWait"
  /\ InQueue(2) = 1

\* C2: in the promise queue any two consecutive sendMail calls of the drain
\* loop are at least SMTP_RATE_LIMIT apart, whatever the sends' outcomes.
C2_SendsSpacedByRateLimit ==
  (variant = "promise" /\ invoke.prev # Never) =>
    invoke.last - invoke.prev >= CONFIG.SMTP_RATE_LIMIT

\* C4: in the promise queue a send that fails with a rate-limit error puts the
\* same job back at the front of the queue, unchanged (no retry is counted),
\* the loop waits RETRY_DELAY, and the loop's next sendMail call is for that
\* job, also when other jobs were enqueued meanwhile.
C4_TransientRetriesSameJobFirst ==
  /\ [](variant = "promise" =>
          \A l \in Ids :
            loop[l].pc = "retryWait" =>
              /\ Len(emailQueue) > 0
              /\ Head(emailQueue) = loop[l].job)
  /\ [][variant = "promise" =>
          \A l \in Ids :
            /\ (loop[l].pc = "sending" /\ loop'[l].pc = "retryWait") =>
                 /\ emailQueue' = <<loop[l].job>> \o emailQueue
                 /\ loop'[l].wakeAt = now + CONFIG.RETRY_DELAY
                 /\ handle' = handle
            /\ loop[l].pc = "retryWait" =>
                 /\ loop'[l].pc # "retryWait" => now >= loop[l].wakeAt
                 /\ \A i \in Ids : attempts'[i] # attempts[i] => i = loop[l].job.id
                 /\ loop'[l].pc \in {"rateWait", "sending"} => loop'[l].job = loop[l].job]_vars

\* Job 1 failed with a rate-limit error, job 2 was enqueued meanwhile, and
\* the loop is sending job 1 again while job 2 still waits.
C4_Witness ==
  /\ variant = "promise"
  /\ loop[1].pc = "sending"
  /\ loop[1].job.id = 1
  /\ attempts[1] = 2
  /\ attempts[2] = 0
  /\ InQueue(2) = 1

\* The job records in the queue or held by the drain loop.
JobRecords ==
  { emailQueue[k] : k \in 1..Len(emailQueue) }
  \cup { loop[l].job : l \in ActiveLoops }

\* C5: in the retry-counting queue a failed send of a job with retries < 3
\* adds one to its retry count and appends it at the back of the queue; a
\* retry count never exceeds 3 and sendMail is called at most 4 times for one
\* job; a job that fails with retries = 3 is not requeued and not sent again.
C5_RetriesBounded ==
  /\ [](variant = "retry" =>
          /\ \A j \in JobRecords : j.id # 0 => j.retries \in 0..MaxRetries
          /\ \A i \in Ids : attempts[i] <= MaxRetries + 1)
  /\ [][variant = "retry" =>
          \A l \in Ids :
            (loop[l].pc = "sending" /\ loop'[l].pc = "retryWait"
               /\ delivered' = delivered) =>
              IF loop[l].job.retries < MaxRetries
                THEN emailQueue' =
                       Append(emailQueue,
                              [loop[l].job EXCEPT !.retries = loop[l].job.retries + 1])
                ELSE /\ emailQueue' = emailQueue
                     /\ InQueue(loop[l].job.id)' = 0]_vars
  /\ [][variant = "retry" =>
          \A i \in Ids :
            (attempts[i] = MaxRetries + 1 /\ InQueue(i) = 0 /\ HeldBy(i) = {}) =>
              (attempts'[i] = attempts[i] /\ InQueue(i)' = 0)]_vars

\* The job of request 1 has failed four times and is gone from the queue.
C5_Witness ==
  /\ variant = "retry"
  /\ attempts[1] = MaxRetries + 1
  /\ delivered[1] = 0
  /\ loop[1].pc = "retryWait"
  /\ InQueue(1) = 0

\* C7: in the promise queue every enqueued job is at every moment in exactly
\* one of the states queued (once in emailQueue), in flight (taken off the
\* queue and held by the drain loop), resolved or rejected; resolved and
\* rejected are final and a job's resolve or reject is called at most once.
C7_JobInExactlyOneState ==
  /\ [](variant = "promise" =>
          \A i \in Ids :
            /\ handle[i].state = "none" =>
                 (InQueue(i) = 0 /\ HeldBy(i) = {} /\ settled[i] = 0)
            /\ handle[i].state = "pending" =>
                 (InQueue(i) + Cardinality(HeldBy(i)) = 1 /\ settled[i] = 0)
            /\ handle[i].state \in {"resolved", "rejected"} =>
                 (InQueue(i) = 0 /\ HeldBy(i) = {} /\ settled[i] = 1))
  /\ [][variant = "promise" =>
          \A i \in Ids :
            handle[i].state \in {"resolved", "rejected"} => handle'[i] = handle[i]]_vars

\* Job 1 was rejected; job 2 failed with a rate-limit error and is queued again.
C7_Witness ==
  /\ variant = "promise"
  /\ handle[1].state = "rejected"
  /\ handle[2].state = "pending"
  /\ loop[1].pc = "retryWait"
  /\ InQueue(2) = 1

\* C8: in the promise server at most one sendMail call is pending at any
\* moment, over all of its endpoints.
C8_SendsSerialized ==
  variant = "promise" => InFlightSends <= 1

\* The dispatch of request i's message has failed for good: its promise was
\* rejected, its own sendMail call rejected, or its job was dropped after the
\* last retry.
DispatchFailed(i) ==
  CASE variant = "promise" -> handle[i].state = "rejected"
    [] variant = "direct" -> sends[i].status = <<"fail">>
    [] OTHER -> /\ attempts[i] = MaxRetries + 1
                /\ delivered[i] = 0
                /\ InQueue(i) = 0
                /\ \A l \in Ids : loop[l].job.id # i

\* C9: in every server a POST /send-email request is answered with
\* {success: true, messageId} only if the transport confirmed the delivery of
\* its message, and with status 500 when the dispatch of its message failed.
C9_AnswerFollowsTransport ==
  \A i \in Ids :
    /\ (resp[i].status = 200 /\ resp[i].success) => delivered[i] >= 1
    /\ DispatchFailed(i) => resp[i].status = 500

EnqueueStep ==
  /\ nreq' = nreq + 1
  /\ request'.route = "/send-email"
  /\ ~MissingFields(request'.body)

\* One of the two queue servers takes a valid POST /send-email request.
AcceptEnqueue ==
  /\ PostSendEmailPromise \/ PostSendEmailRetry
  /\ ~MissingFields(request'.body)

\* C11: in both queue variants an enqueue is accepted in every state, whatever
\* the drain loop is doing (idle, rate-limit wait, awaiting sendMail, retry
\* delay), and completes in the handler's own step: the job is appended once
\* at the back of the queue, behind every job already there (an idle loop is
\* started and takes it off at once), the loop's progress on other jobs is
\* untouched, and the caller has its handle: a pending promise in the promise
\* queue, the 200 answer in the retry-counting queue.
C11_EnqueueNeverBlocks ==
  /\ []((QueueVariant /\ nreq < MaxReq) => ENABLED AcceptEnqueue)
  /\ [][(QueueVariant /\ EnqueueStep) =>
          \A i \in {nreq + 1} :
             /\ IF isProcessing
                  THEN /\ Len(emailQueue') = Len(emailQueue) + 1
                       /\ SubSeq(emailQueue', 1, Len(emailQueue)) = emailQueue
                       /\ emailQueue'[Len(emailQueue')].id = i
                       /\ loop' = loop
                  ELSE /\ emailQueue' = emailQueue
                       /\ HeldBy(i)' = {i}
             /\ InQueue(i)' + Cardinality(HeldBy(i)') = 1
             /\ IF variant = "promise"
                  THEN handle'[i].state = "pending"
                  ELSE resp'[i] = Resp(200, TRUE)]_vars

\* The promise queue took request 2 while its loop was in the retry delay of
\* job 1: job 2 is queued behind job 1 and its promise is pending.
C11_Witness ==
  /\ variant = "promise"
  /\ loop[1].pc = "retryWait"
  /\ Len(emailQueue) = 2
  /\ emailQueue[1].id = 1
  /\ emailQueue[2].id = 2
  /\ handle[2].state = "pending"

\* The jobs waiting in the queue: enqueued, and not taken off by the drain loop.
Waiting == { i \in Ids : InQueue(i) > 0 }

\* The jobs the drain loop has taken off the queue and is about to send or sending.
InFlight == { i \in Ids : HeldBy(i) # {} }

\* C12: the queueLength a GET /queue-status request is answered with is the
\* number of jobs waiting in the queue at that moment; the job the drain loop
\* has dequeued and is sending is not in the queue and is not counted.
C12_QueueLengthCountsWaitingJobs ==
  request.route = "/queue-status" =>
    /\ reply.status = 200
    /\ reply.queueLength = Len(emailQueue)
    /\ reply.queueLength = Cardinality(Waiting)
    /\ Waiting \cap InFlight = {}

\* /queue-status was asked while the loop was sending job 1 and job 2 was
\* waiting: the answer counts one job.
C12_Witness ==
  /\ request.route = "/queue-status"
  /\ loop[1].pc = "sending"
  /\ InFlight = {1}
  /\ Waiting = {2}
  /\ reply.queueLength = 1

\* C18: a GET /health or GET /queue-status request is answered and changes
\* nothing: the queue, the busy flag, the last-send time, the drain loop, the
\* promises, the responses of other requests and the transport calls made are
\* as before, wherever in a behaviour the request comes and however often.
C18_StatusRequestsChangeNothing ==
  [][request'.route \in {"/health", "/queue-status"} =>
       /\ reply'.status = 200
       /\ UNCHANGED <<emailQueue, isProcessing, lastEmailTime, loop, handle,
                      settled, sends, resp, attempts, delivered, invoke,
                      firstDone, nreq, now>>]_vars

\* /health was asked while the promise queue was in the retry delay of job 1
\* with job 2 queued behind it.
C18_Witness ==
  /\ variant = "promise"
  /\ request.route = "/health"
  /\ reply = HealthReply
  /\ loop[1].pc = "retryWait"
  /\ Len(emailQueue) = 2

\* The interval the drain loop keeps between a confirmed send and its next
\* sendMail call: SMTP_RATE_LIMIT ms in the promise queue, 60000 / RATE_LIMIT
\* ms in the retry-counting queue.
EnforcedInterval ==
  IF variant = "promise" THEN CONFIG.SMTP_RATE_LIMIT ELSE minInterval

\* C19: the rateLimitMs a GET /queue-status request is answered with is the
\* interval in milliseconds the drain loop of that server enforces between
\* sends, in each queue variant.
C19_RateLimitMsIsEnforcedInterval ==
  (request.route = "/queue-status" /\ reply.status = 200) =>
    reply.rateLimitMs = EnforcedInterval

\* The jobs the drain loop has called sendMail for, and those it has resolved.
Started == { i \in Ids : attempts[i] > 0 }
Resolved == { i \in Ids : handle[i].state = "resolved" }

\* C13: in the promise queue, when every send succeeds, the k-th send of the
\* drain loop (k >= 2; jobs are sent once each, in the order enqueued) starts
\* no earlier than (k-1) * SMTP_RATE_LIMIT after the first send was confirmed,
\* and k jobs are all resolved no earlier than that; with SMTP_RATE_LIMIT =
\* 1000 three jobs are resolved no sooner than 2000 ms after the first.
C13_SendsPacedFromFirstSuccess ==
  variant = "promise" =>
    /\ \A i \in Ids : attempts[i] <= 1
    /\ Cardinality(Started) >= 2 =>
         /\ firstDone # Never
         /\ invoke.last >= firstDone + (Cardinality(Started) - 1) * CONFIG.SMTP_RATE_LIMIT
    /\ Cardinality(Resolved) >= 1 =>
         /\ lastEmailTime >= firstDone + (Cardinality(Resolved) - 1) * CONFIG.SMTP_RATE_LIMIT
         /\ now >= lastEmailTime

\* Three jobs were enqueued with an interval of 1000 ms, and the third was
\* resolved exactly 2000 ms after the first.
C13_Witness ==
  /\ variant = "promise"
  /\ CONFIG.SMTP_RATE_LIMIT = 1000
  /\ Resolved = {1, 2, 3}
  /\ lastEmailTime = firstDone + 2000
  /\ now = lastEmailTime

\* The response codes of the errors the promise queue takes for rate limiting,
\* and of those it does not.
TransientCodes == { e.responseCode : e \in TransientErrors }
PermanentCodes == { e.responseCode : e \in PermanentErrors }

\* C14: in the promise queue a rate-limit failure never reaches the caller: a
\* promise is rejected only by a failure that is no rate-limit error, and a
\* send that fails with a rate-limit error leaves the job's promise pending
\* and its request unanswered.
C14_TransientFailureNotSurfaced ==
  /\ [](variant = "promise" =>
          \A i \in Ids :
            /\ handle[i].state = "rejected" =>
                 (handle[i].code \in PermanentCodes /\ handle[i].code \notin TransientCodes)
            /\ resp[i].status = 500 => handle[i].state = "rejected")
  /\ [][variant = "promise" =>
          \A l \in Ids :
            (loop[l].pc = "sending" /\ loop'[l].pc = "retryWait") =>
              /\ handle'[loop[l].job.id].state = "pending"
              /\ resp'[loop[l].job.id] = NoResp]_vars

\* Job 1 has failed with a rate-limit error twice and is in its third retry
\* delay, its promise pending and its request unanswered.
C14_Witness ==
  /\ variant = "promise"
  /\ attempts[1] = 3
  /\ loop[1].pc = "retryWait"
  /\ handle[1].state = "pending"
  /\ resp[1] = NoResp

\* Request i passed validation and its job was put in the queue.
Enqueued(i) ==
  IF variant = "promise" THEN handle[i].state # "none" ELSE resp[i] = Resp(200, TRUE)

\* C15: in both queue variants, when no send fails, the jobs are handed to
\* sendMail in the order they were enqueued, once each, whatever the
\* interleaving of the enqueues with the drain loop: a job is never handed
\* over while one enqueued before it has not been, and the jobs waiting in
\* the queue are in the order of their enqueueing.
C15_SentInEnqueueOrder ==
  /\ \A i \in Ids : attempts[i] <= 1
  /\ \A i, j \in Ids :
       (i < j /\ Enqueued(i) /\ attempts[j] > 0) => attempts[i] > 0
  /\ \A k \in 1..(Len(emailQueue) - 1) : emailQueue[k].id < emailQueue[k + 1].id

\* The retry-counting queue sent job 1, had jobs 2 and 3 waiting in the
\* meantime, and is now sending job 2 with job 3 still waiting.
C15_Witness ==
  /\ variant = "retry"
  /\ delivered[1] = 1
  /\ loop[1].pc = "sending"
  /\ loop[1].job.id = 2
  /\ Waiting = {3}
  /\ attempts[3] = 0

\* How often index k is an entry of the list seq.
Occurrences(seq, k) == Cardinality({ p \in 1..Len(seq) : seq[p] = k })

\* C16: the answer to a valid POST /send-bulk-email request lists every
\* recipient index exactly once, in `results` if its send was confirmed and in
\* `errors` if it failed, and totalSent + totalErrors is the number of
\* recipients, whatever the outcome of each recipient's send.
C16_BulkAnswerPartitionsRecipients ==
  \A i \in Ids :
    (sends[i].route = "/send-bulk-email" /\ resp[i].status # 0) =>
      LET status == sends[i].status
      IN /\ resp[i].status = 200
         /\ \A k \in 1..Len(status) :
              /\ Occurrences(resp[i].results, k) + Occurrences(resp[i].errors, k) = 1
              /\ Occurrences(resp[i].results, k) = 1 <=> status[k] = "ok"
              /\ Occurrences(resp[i].errors, k) = 1 <=> status[k] = "fail"
         /\ resp[i].totalSent = Len(resp[i].results)
         /\ resp[i].totalErrors = Len(resp[i].errors)
         /\ resp[i].totalSent + resp[i].totalErrors = Len(status)

\* A bulk request to two recipients was answered after the first send failed
\* and the second was confirmed.
C16_Witness ==
  /\ sends[1].route = "/send-bulk-email"
  /\ sends[1].status = <<"fail", "ok">>
  /\ resp[1].results = <<2>>
  /\ resp[1].errors = <<1>>
  /\ resp[1].totalSent = 1
  /\ resp[1].totalErrors = 1

\* C17: in the allow-listed server a request to any route (/send-email,
\* /health, /queue-status) from a client whose address, with one leading
\* "::ffff:" taken off, is not in allowedIPs is answered 403 and changes
\* nothing else: no job is enqueued, no sendMail call is made, the queue, the
\* busy flag, the last-send time and the drain loop are as before, and the
\* route's handler gives no answer of its own.
C17_RefusedClientChangesNothing ==
  [][(request' # NoRequest /\ cleanIP(request'.ip) \notin allowedIPs) =>
       /\ IF request'.route = "/send-email"
            THEN /\ nreq' = nreq + 1
                 /\ resp'[nreq'] = Resp(403, FALSE)
                 /\ \A i \in Ids \ {nreq'} : resp'[i] = resp[i]
                 /\ reply' = NoReply
            ELSE /\ nreq' = nreq
                 /\ resp' = resp
                 /\ reply' = Forbidden
       /\ UNCHANGED <<emailQueue, isProcessing, lastEmailTime, loop, handle,
                      settled, sends, attempts, delivered, invoke, firstDone>>]_vars

\* While the loop was sending job 1, a complete /send-email request came from
\* "::ffff:::ffff:127.0.0.1", which is not an allowed address once one prefix
\* is taken off, and was answered 403; nothing was queued.
C17_Witness ==
  /\ request.route = "/send-email"
  /\ request.ip = <<MappedPrefix, MappedPrefix, "127.0.0.1">>
  /\ ~MissingFields(request.body)
  /\ resp[2].status = 403
  /\ loop[1].pc = "sending"
  /\ emailQueue = <<>>

\* C20: in the retry-counting queue any two consecutive sendMail calls of the
\* drain loop are at least minInterval = 60000 / RATE_LIMIT ms apart, whatever
\* the configuration and the sends' outcomes.
C20_RetrySendsSpacedByMinInterval ==
  (variant = "retry" /\ invoke.prev # Never) =>
    invoke.last - invoke.prev >= minInterval

\* One of the three servers takes a valid POST /send-email request.
AcceptSendEmail ==
  /\ PostSendEmailPromise \/ PostSendEmailRetry \/ PostSendEmailDirect
  /\ ~MissingFields(request'.body)

\* C21: a failure of transporter.verify is not fatal. Its callback changes
\* nothing of the server's state, whether it is called with an error or
\* without, so the state after a failure is the state after a success; after
\* a failure every server still takes a valid /send-email request and has
\* sendMail called for it (at once by the handler or an idle drain loop, else
\* the job waits in the queue of the running loop); and with the transport
\* unreachable the send fails where it always does: the direct and the
\* promise server answer 500, the retry-counting server gives the job up
\* after its last retry with nothing delivered.
C21_VerifyFailureNotFatal ==
  /\ [][verified' # verified =>
          /\ verified = "pending"
          /\ verified' \in {"ok", "failed"}
          /\ UNCHANGED <<variant, CONFIG, now, emailQueue, isProcessing,
                         lastEmailTime, loop, handle, settled, sends, resp,
                         attempts, delivered, invoke, firstDone, nreq>>]_vars
  /\ []((verified = "failed" /\ nreq < MaxReq) => ENABLED AcceptSendEmail)
  /\ [][(verified = "failed" /\ EnqueueStep) =>
          \A i \in {nreq + 1} :
            IF variant = "direct"
              THEN sends'[i].status = <<"pending">>
              ELSE /\ InQueue(i)' + Cardinality(HeldBy(i)') = 1
                   /\ ~isProcessing => (attempts'[i] = 1 /\ loop'[i].pc = "sending")]_vars
  /\ [](verified = "failed" =>
          \A i \in Ids :
            /\ (variant = "direct" /\ sends[i].status = <<"fail">>) =>
                 resp[i].status = 500
            /\ (variant = "promise" /\ attempts[i] >= 1 /\ HeldBy(i) = {}) =>
                 (handle[i].state = "rejected" /\ resp[i].status = 500)
            /\ (variant = "retry" /\ DispatchFailed(i)) => delivered[i] = 0)

\* After transporter.verify reported an error the promise server took
\* request 1, whose send failed and was answered 500, and has just taken
\* request 2 and called sendMail for it.
C21_Witness ==
  /\ variant = "promise"
  /\ verified = "failed"
  /\ resp[1].status = 500
  /\ request.route = "/send-email"
  /\ nreq = 2
  /\ attempts[2] = 1
  /\ loop[2].pc = "sending"

\* C22: in the promise queue a send that fails with an error that is no
\* rate-limit error rejects the promise of the failing job and of no other,
\* with the error's response code; the job is not put back in the queue; the
\* jobs waiting keep their order; and the loop goes on in the same step: it
\* takes the job at the head of the queue as its next one, or ends with the
\* busy flag cleared when none waits.
C22_PermanentFailureIsPerJob ==
  [][variant = "promise" =>
       \A l \in Ids :
         (/\ loop[l].pc = "sending"
          /\ loop'[l] # loop[l]
          /\ loop'[l].pc # "retryWait"
          /\ delivered' = delivered) =>
           \A j \in {loop[l].job.id} :
             /\ handle[j].state = "pending"
             /\ handle'[j].state = "rejected"
             /\ handle'[j].code \in PermanentCodes
             /\ settled'[j] = 1
             /\ resp'[j].status = 500
             /\ \A i \in Ids \ {j} :
                  handle'[i] = handle[i] /\ settled'[i] = settled[i] /\ resp'[i] = resp[i]
             /\ InQueue(j)' = 0
             /\ HeldBy(j)' = {}
             /\ attempts'[j] = attempts[j]
             /\ IF emailQueue = <<>>
                  THEN emailQueue' = <<>> /\ loop'[l] = NoLoop /\ ~isProcessing'
                  ELSE /\ emailQueue' = Tail(emailQueue)
                       /\ loop'[l].job = Head(emailQueue)
                       /\ loop'[l].pc \in {"rateWait", "sending"}
                       /\ isProcessing']_vars

\* The send of job 1 failed for good while job 2 waited: promise 1 is
\* rejected, promise 2 is pending and the loop is sending job 2.
C22_Witness ==
  /\ variant = "promise"
  /\ handle[1].state = "rejected"
  /\ handle[1].code \in PermanentCodes
  /\ handle[2].state = "pending"
  /\ loop[1].pc = "sending"
  /\ loop[1].job.id = 2
  /\ attempts[2] = 1
  /\ emailQueue = <<>>

\* C23: in both queue variants no job is stranded. Between steps, if the busy
\* flag is clear the queue is empty, and a job that waits has a drain loop
\* that has not returned; a loop that comes out of a wait with a job in the
\* queue (one enqueued during the wait included) takes the job at the head,
\* and ends only with the queue empty; a request that finds the flag clear
\* starts a loop of its own.
C23_NoJobStranded ==
  /\ [](QueueVariant =>
          /\ ~isProcessing => emailQueue = <<>>
          /\ emailQueue # <<>> => ActiveLoops # {})
  /\ [][QueueVariant =>
          \A l \in Ids :
            /\ (loop[l].pc = "retryWait" /\ loop'[l] # loop[l]) =>
                 IF emailQueue # <<>>
                   THEN /\ loop'[l].job = Head(emailQueue)
                        /\ loop'[l].pc \in {"rateWait", "sending"}
                        /\ isProcessing'
                   ELSE loop'[l] = NoLoop /\ ~isProcessing'
            /\ (loop[l].pc # "none" /\ loop'[l].pc = "none") => emailQueue' = <<>>
            /\ (EnqueueStep /\ ~isProcessing /\ l = nreq + 1) =>
                 (loop'[l].pc \in {"rateWait", "sending"} /\ loop'[l].job.id = l)]_vars

\* The retry-counting loop sent job 1 and was in the delay that ends the
\* iteration, with nothing queued, when job 2 was enqueued; the same loop
\* has taken job 2 and is sending it.
C23_Witness ==
  /\ variant = "retry"
  /\ delivered[1] = 1
  /\ loop[1].pc = "sending"
  /\ loop[1].job.id = 2
  /\ attempts[2] = 1
  /\ emailQueue = <<>>
  /\ isProcessing

\* C24: in both queue variants, for as long as the sendMail call of the job
\* in flight has not returned, the queue is blocked: every step leaves the
\* busy flag set, makes no sendMail call for any job, starts no other loop
\* and takes nothing off the queue; the only change to the queue is a newly
\* enqueued job appended at its back. No timer of the loop is pending
\* meanwhile, so the passing of time does not end the wait.
C24_HungSendBlocksQueue ==
  /\ [](QueueVariant =>
          \A l \in Ids :
            loop[l].pc = "sending" =>
              /\ isProcessing
              /\ ActiveLoops = {l}
              /\ ~ENABLED RateLimitTimer
              /\ ~ENABLED RetryTimer)
  /\ [][QueueVariant =>
          \A l \in Ids :
            (loop[l].pc = "sending" /\ loop'[l] = loop[l]) =>
              /\ isProcessing'
              /\ attempts' = attempts
              /\ invoke' = invoke
              /\ loop' = loop
              /\ delivered' = delivered
              /\ handle' = handle \/ (EnqueueStep /\ variant = "promise")
              /\ \/ emailQueue' = emailQueue
                 \/ /\ EnqueueStep
                    /\ Len(emailQueue') = Len(emailQueue) + 1
                    /\ SubSeq(emailQueue', 1, Len(emailQueue)) = emailQueue
                    /\ emailQueue'[Len(emailQueue')].id = nreq']_vars

\* The sendMail call for job 1 has been pending since the server started
\* and the clock has run out; job 2, enqueued meanwhile, waits untouched.
C24_Witness ==
  /\ QueueVariant
  /\ loop[1].pc = "sending"
  /\ loop[1].job.id = 1
  /\ attempts[1] = 1
  /\ invoke.last = StartTime
  /\ now = StartTime + MaxTicks * TickMs
  /\ InQueue(2) = 1
  /\ attempts[2] = 0
  /\ isProcessing

\* C25: in both queue variants a job is delivered at most once: a job whose
\* send the transport has confirmed is confirmed no second time, is nowhere
\* in the queue, is not held by the drain loop for sending, and no later step
\* calls sendMail for it or puts it back.
C25_DeliveredAtMostOnce ==
  /\ [](QueueVariant =>
          \A i \in Ids :
            /\ delivered[i] <= 1
            /\ delivered[i] = 1 => (InQueue(i) = 0 /\ HeldBy(i) = {}))
  /\ [][QueueVariant =>
          \A i \in Ids :
            delivered[i] = 1 =>
              /\ attempts'[i] = attempts[i]
              /\ delivered'[i] = 1
              /\ InQueue(i)' = 0
              /\ HeldBy(i)' = {}]_vars

\* In the retry-counting queue job 1 failed once, was sent again and
\* confirmed; the loop went on to job 2 and has ended, and job 1 was called
\* for twice only.
C25_Witness ==
  /\ variant = "retry"
  /\ attempts[1] = 2
  /\ delivered[1] = 1
  /\ attempts[2] >= 1
  /\ ActiveLoops = {}
  /\ emailQueue = <<>>

\* C26: in the promise queue a job whose every send fails with a rate-limit
\* error is sent again and again: its promise is never settled, however
\* often it has failed, and sendMail is called for it again after every
\* failure (the count of its calls passes every number counted, more than
\* the 4 calls the retry-counting queue stops at); and all the while no job
\* enqueued behind it is handed to sendMail.
C26_TransientRetryUnbounded ==
  /\ [](\A i \in Ids :
          /\ handle[i].state \in {"none", "pending"}
          /\ resp[i].status \in {0, 400}
          /\ \A j \in Ids : (i < j /\ handle[i].state = "pending") => attempts[j] = 0)
  /\ \A i \in Ids :
       (attempts[i] >= 1) ~> (attempts[i] = AttemptsCap /\ HeldBy(i) # {})

\* Job 1 has failed with a rate-limit error more often than the
\* retry-counting queue would retry it and is in its delay once more, still
\* pending; job 2, behind it in the queue, was never sent.
C26_Witness ==
  /\ variant = "promise"
  /\ attempts[1] = AttemptsCap
  /\ loop[1].pc = "retryWait"
  /\ handle[1].state = "pending"
  /\ handle[2].state = "pending"
  /\ attempts[2] = 0
  /\ Len(emailQueue) = 2
  /\ emailQueue[1].id = 1

\* C27: lastEmailTime never decreases and is written by one kind of step
\* only: the drain loop's, when its sendMail call has fulfilled, which sets
\* it to the time of that step. A failed send of the loop, a request of any
\* route (an enqueue, a refused request, a status query), and the start and
\* the outcome of a sendMail call made by the handler of /send-bulk-email or
\* /send-email-with-attachments leave it as it was.
C27_LastEmailTimeSetOnlyAfterSuccess ==
  [][/\ lastEmailTime' >= lastEmailTime
     /\ lastEmailTime' # lastEmailTime =>
          /\ lastEmailTime' = now
          /\ request' = NoRequest
          /\ sends' = sends
          /\ \E l \in Ids :
               /\ loop[l].pc = "sending"
               /\ delivered'[loop[l].job.id] = delivered[loop[l].job.id] + 1
     /\ (\E l \in Ids : loop[l].pc = "sending" /\ loop'[l] # loop[l]
                          /\ delivered' = delivered) =>
          lastEmailTime' = lastEmailTime
     /\ request' # NoRequest => lastEmailTime' = lastEmailTime
     /\ sends' # sends => lastEmailTime' = lastEmailTime]_vars

\* The promise queue confirmed job 1 when the server started; later a bulk
\* request's own send was confirmed too, and /queue-status, asked after the
\* clock has moved, still reports the time of job 1.
C27_Witness ==
  /\ variant = "promise"
  /\ handle[1].state = "resolved"
  /\ sends[2].route = "/send-bulk-email"
  /\ sends[2].status = <<"ok">>
  /\ now > StartTime
  /\ request.route = "/queue-status"
  /\ reply.lastEmailTime = StartTime
  /\ lastEmailTime = StartTime

\* The sendMail calls the drain loop has made, over all jobs.
RECURSIVE SumUpTo(_, _)
SumUpTo(f, n) == IF n = 0 THEN 0 ELSE f[n] + SumUpTo(f, n - 1)

Invocations == SumUpTo(attempts, Cardinality(Ids))

\* The jobs enqueued so far.
EnqueuedJobs == { i \in Ids : Enqueued(i) }

\* C28: in the retry-counting queue, when every sendMail call returns and
\* every timer fires, the drain loop has never made more than 4 sendMail
\* calls per job enqueued (4 * N for N jobs), and once the requests have
\* stopped it ends and stays ended: no activation is left, the queue is
\* empty and the busy flag is clear.
C28_DrainTerminatesWithinFourCallsPerJob ==
  /\ [](Invocations <= (MaxRetries + 1) * Cardinality(EnqueuedJobs))
  /\ <>[](ActiveLoops = {} /\ emailQueue = <<>> /\ ~isProcessing)

\* Two jobs were enqueued, every send of both failed, and the loop has ended
\* after 8 sendMail calls with the queue empty and the flag clear.
C28_Witness ==
  /\ variant = "retry"
  /\ Cardinality(EnqueuedJobs) = 2
  /\ Invocations = 8
  /\ ActiveLoops = {}
  /\ emailQueue = <<>>
  /\ ~isProcessing

\* C29: in the retry-counting queue the step in which a sendMail call of the
\* drain loop returns, fulfilled or rejected, puts the loop in a wait of
\* RETRY_DELAY from that moment, and the loop leaves the wait no sooner; so
\* any two consecutive sendMail calls of the loop are at least RETRY_DELAY
\* apart.
C29_RetryDelayAfterEveryJob ==
  /\ []((variant = "retry" /\ invoke.prev # Never) =>
          invoke.last - invoke.prev >= CONFIG.RETRY_DELAY)
  /\ [][variant = "retry" =>
          \A l \in Ids :
            /\ (loop[l].pc = "sending" /\ loop'[l] # loop[l]) =>
                 /\ loop'[l].pc = "retryWait"
                 /\ loop'[l].wakeAt = now + CONFIG.RETRY_DELAY
                 /\ attempts' = attempts
            /\ (loop[l].pc = "retryWait" /\ loop'[l] # loop[l]) =>
                 now >= loop[l].wakeAt]_vars

\* With RETRY_DELAY = 2000 and an interval of 1000 between sends, job 1 was
\* confirmed at once and the loop called sendMail for job 2 exactly 2000 ms
\* after its call for job 1.
C29_Witness ==
  /\ variant = "retry"
  /\ CONFIG.RETRY_DELAY = 2000
  /\ minInterval = 1000
  /\ delivered[1] = 1
  /\ attempts[2] = 1
  /\ invoke.prev = StartTime
  /\ invoke.last = invoke.prev + CONFIG.RETRY_DELAY

====
